---- MODULE Spec2Model ----
(***************************************************************************)
(* Billing core of squarelet: the subscription transitions of an            *)
(* Organization (set_subscription and its four branches), the Stripe        *)
(* webhook handlers (charge.succeeded, invoice.payment_failed) and the      *)
(* daily restore_organization job, on top of a model of Django's            *)
(* transaction.atomic / transaction.on_commit.                              *)
(***************************************************************************)
EXTENDS Integers, Sequences, FiniteSets, TLC

\* ------------------------------------------------------------------ bounds
MaxDay == 2        \* days the clock advances
MaxUsers == 2      \* largest seat count a caller asks for
MaxSubs == 2       \* subscriptions created on the gateway
MaxReceipts == 3   \* receipts sent in total
MaxCharges == 2    \* distinct charge ids the gateway delivers

\* --------------------------------------------------------------- constants
Month == 2                \* relativedelta(months=1), in days of the model
DefaultMaxUsers == 5      \* Organization.max_users default
FinalAttempt == 4         \* attempt_count that cancels the subscription
IndividualMaxUsers == 1   \* seat count forced on individual organizations
CREATED == 0
UPDATED == 1
FAILED == 2

max_retries == 3          \* retries of a task with autoretry_for
NULL == -1                \* None for dates, ids and counts
NoPlan == "none"          \* None for plan foreign keys
NoUser == "nobody"        \* None for user foreign keys
NoToken == "notoken"      \* no stripe token supplied

\* ------------------------------------------------------------------- plans
\* The rows of the Plan table: two free plans and two paid ones, one of
\* them free of base price but charged per user.
Plans == {"free", "beta", "basic", "pro"}

base_price(p) ==
  CASE p = "free" -> 0 [] p = "beta" -> 0 [] p = "basic" -> 0 [] p = "pro" -> 1000

price_per_user(p) ==
  CASE p = "free" -> 0 [] p = "beta" -> 0 [] p = "basic" -> 5 [] p = "pro" -> 10

feature_level(p) ==
  CASE p = "free" -> 0 [] p = "beta" -> 1 [] p = "basic" -> 1 [] p = "pro" -> 2

\* Plan.free looking at the base price only
free_base_price_only(p) == base_price(p) = 0

\* Plan.free
free(p) == base_price(p) = 0 /\ price_per_user(p) = 0

Users == {"alice", NoUser}
Tokens == {"tok", NoToken}
\* what goes wrong during one operation: nothing, the gateway rejects the
\* card, the gateway rejects the subscription call, or a database statement
\* (the change-log insert) raises
Failures == {"none", "card", "subscription", "db"}
CustomerId == 1           \* the gateway's customer id of the organization
UnknownCustomer == 2      \* a customer id no organization has
Customers == {CustomerId, UnknownCustomer}
Attempts == (FinalAttempt - 1)..(FinalAttempt + 1)
ChargeIds == 1..MaxCharges
\* the plan id of an invoice's first line, as <<prefix, rest>>; <<>> when the
\* charge has no invoice
NoInvoice == <<>>
InvoicePlans == {NoInvoice, <<"squarelet_plan_", "pro">>, <<"donate", "_monthly">>,
                 <<"crowdfund", "_12">>}
MetadataActions == {"none", "donation", "crowdfund-payment"}
\* the users an invitation is for or is accepted by; NoUser is None
Invitees == {"alice", "bob", NoUser}

VARIABLES
  org,          \* the organization's row (exists = FALSE: not created yet)
  change_logs,  \* the rows the last request added to OrganizationChangeLog
                \* (the table is append-only and nothing modelled here reads
                \* it, so the older rows are not kept)
  subs,         \* the gateway's subscriptions, subscription id = index
  today,        \* date.today()
  charges,      \* the Charge table
  receipts,     \* receipts sent, per charge_id
  invitation,   \* the invitation to the organization (exists = FALSE: not
                \* sent yet)
  memberships,  \* the users who are members of the organization
  retry,        \* the charge.succeeded task that waits for its retry
  loaded,       \* the request that has loaded its copy of a row and has not
                \* yet gone on, while another request is served
  last          \* the request just served: its name, inputs, the row it found,
                \* its exception and its events ("idle" between requests)

vars == <<org, change_logs, subs, today, charges, receipts, invitation, memberships,
          retry, loaded, last>>

\* ----------------------------------------------- transactions (django.db)
\* statement sequencing: the value of a statement is computed once and
\* handed to the statements that follow it
Then(value, body(_)) == CHOOSE r \in {body(v) : v \in {value}} : TRUE

\* A world is the state one request works on: db is what the request's
\* connection sees, committed what every other connection sees, inst the
\* model instance in memory (self), stack the open atomic blocks with their
\* savepoints, hooks the pending on_commit callbacks, exc the exception that
\* is propagating, memo whether the instance has memoized its customer.
World(fail) ==
  [db |-> [org |-> org, log |-> <<>>],
   committed |-> [org |-> org, log |-> <<>>],
   inst |-> org, stack |-> <<>>, hooks |-> <<>>, subs |-> subs,
   exc |-> "none", events |-> <<>>, fail |-> fail, today |-> today,
   memo |-> FALSE]

Emit(w, e) ==
  [w EXCEPT !.events = Append(@, [e |-> e, depth |-> Len(w.stack),
                                 dirty |-> (w.db # w.committed)])]

Raise(w, e) == [w EXCEPT !.exc = e]

\* one statement on the connection: autocommitted outside atomic blocks
DbWrite(w, newdb) ==
  IF Len(w.stack) = 0
    THEN [w EXCEPT !.db = newdb, !.committed = newdb]
    ELSE [w EXCEPT !.db = newdb]

AtomicEnter(w) ==
  [w EXCEPT !.stack = Append(@, [db |-> w.db, nhooks |-> Len(w.hooks)])]

RECURSIVE RunHooks(_, _)
RECURSIVE save(_)

\* send_cache_invalidations
send_cache_invalidations(w) ==
  IF w.exc # "none" THEN w ELSE Emit(w, "cache")

\* the closure stripe_create_subscription of _create_subscription
stripe_create_subscription(w, plan, max_users) ==
  IF w.exc # "none" THEN w
  ELSE IF w.fail = "subscription"
    THEN Then(Emit(w, "stripe_create_failed"), LAMBDA w1 : Raise(w1, "StripeError"))
  ELSE Then([w EXCEPT !.subs = Append(@, [status |-> "active"])], LAMBDA created :
       Then(Emit(created, "stripe_create"), LAMBDA w1 :
       save([w1 EXCEPT !.inst.subscription_id = Len(w1.subs)])))

RunHook(w, h) ==
  CASE h.kind = "cache" -> send_cache_invalidations(w)
    [] h.kind = "stripe_create" -> stripe_create_subscription(w, h.plan, h.max_users)

\* run_and_clear_commit_hooks: an exception in a hook skips the rest
RunHooks(w, hs) ==
  IF hs = <<>> \/ w.exc # "none" THEN w
  ELSE Then(RunHook(w, Head(hs)), LAMBDA w1 : RunHooks(w1, Tail(hs)))

\* transaction.on_commit: queued inside an atomic block, run at once outside
OnCommit(w, h) ==
  IF w.exc # "none" THEN w
  ELSE IF Len(w.stack) > 0 THEN [w EXCEPT !.hooks = Append(@, h)]
  ELSE RunHook(w, h)

\* leaving an atomic block: roll back to its savepoint on an exception,
\* release the savepoint when nested, commit and run the hooks when outermost
AtomicExit(w) ==
  LET top == w.stack[Len(w.stack)]
      rest == SubSeq(w.stack, 1, Len(w.stack) - 1)
  IN IF w.exc # "none"
       THEN [w EXCEPT !.db = top.db, !.hooks = SubSeq(@, 1, top.nhooks), !.stack = rest]
     ELSE IF rest # <<>> THEN [w EXCEPT !.stack = rest]
     ELSE Then([w EXCEPT !.stack = <<>>, !.committed = w.db, !.hooks = <<>>],
               LAMBDA w1 :
          Then(Emit(w1, "commit"), LAMBDA w2 : RunHooks(w2, w.hooks)))

\* Organization.save
save(w) ==
  IF w.exc # "none" THEN w
  ELSE Then(AtomicEnter(w), LAMBDA w1 :
       Then(DbWrite(w1, [w1.db EXCEPT !.org = w1.inst]), LAMBDA w2 :
       Then(Emit(w2, "write"), LAMBDA w3 :
       Then(OnCommit(w3, [kind |-> "cache"]), LAMBDA w4 : AtomicExit(w4)))))

\* ------------------------------------------------ Organization (models.py)
\* Organization.customer: retrieve the gateway customer, or create it and
\* store its id
customer(w) ==
  IF w.exc # "none" \/ w.memo THEN w
  ELSE IF w.inst.customer_id # NULL
    THEN Emit([w EXCEPT !.memo = TRUE], "stripe_customer_retrieve")
  ELSE Then(Emit([w EXCEPT !.memo = TRUE], "stripe_customer_create"), LAMBDA w1 :
       save([w1 EXCEPT !.inst.customer_id = CustomerId]))

\* Organization.subscription: the remote subscription, None (FALSE) if the
\* organization has no subscription_id
subscription(w) == w.inst.subscription_id # NULL

\* Organization.save_card
save_card(w, token) ==
  IF w.exc # "none" THEN w
  ELSE Then(save([w EXCEPT !.inst.payment_failed = FALSE]), LAMBDA w1 :
       Then(customer(w1), LAMBDA w2 :
       Then(IF w2.exc # "none" THEN w2
            ELSE IF w2.fail = "card"
              THEN Raise(Emit(w2, "card_declined"), "StripeError")
            ELSE Emit(w2, "card_saved"), LAMBDA w3 :
       send_cache_invalidations(w3))))

\* _create_subscription calling the gateway inside its atomic block
create_subscription_eager(w, plan, max_users) ==
  IF w.exc # "none" THEN w
  ELSE Then(AtomicEnter(w), LAMBDA w1 :
       Then(save([w1 EXCEPT !.inst.plan = plan, !.inst.next_plan = plan,
                            !.inst.max_users = max_users,
                            !.inst.update_on = w1.today + Month]), LAMBDA w2 :
       Then(stripe_create_subscription(w2, plan, max_users), LAMBDA w3 :
       AtomicExit(w3))))

\* _create_subscription forgetting the next reset date
create_subscription_no_date(w, plan, max_users) ==
  IF w.exc # "none" THEN w
  ELSE Then(AtomicEnter(w), LAMBDA w1 :
       Then(save([w1 EXCEPT !.inst.plan = plan, !.inst.next_plan = plan,
                            !.inst.max_users = max_users]), LAMBDA w2 :
       Then(OnCommit(w2, [kind |-> "stripe_create", plan |-> plan,
                          max_users |-> max_users]), LAMBDA w3 :
       AtomicExit(w3))))

\* Organization._create_subscription
_create_subscription(w, plan, max_users) ==
  IF w.exc # "none" THEN w
  ELSE Then(AtomicEnter(w), LAMBDA w1 :
       Then(save([w1 EXCEPT !.inst.plan = plan, !.inst.next_plan = plan,
                            !.inst.max_users = max_users,
                            !.inst.update_on = w1.today + Month]), LAMBDA w2 :
       Then(OnCommit(w2, [kind |-> "stripe_create", plan |-> plan,
                          max_users |-> max_users]), LAMBDA w3 :
       AtomicExit(w3))))

\* the gateway call of _cancel_subscription failing when there is no
\* subscription to cancel
stripe_cancel_subscription_strict(w) ==
  IF subscription(w) /\ w.fail # "subscription"
    THEN Emit([w EXCEPT !.subs[w.inst.subscription_id].status =
                          "cancel_at_period_end",
                        !.inst.subscription_id = NULL],
              "stripe_cancel")
    ELSE Raise(Emit(w, "stripe_cancel_failed"), "StripeError")

\* the gateway call of _cancel_subscription: cancel at period end and forget
\* the subscription id, or log an error when there is no subscription
stripe_cancel_subscription(w) ==
  IF subscription(w)
    THEN IF w.fail = "subscription"
           THEN Raise(Emit(w, "stripe_cancel_failed"), "StripeError")
           ELSE Emit([w EXCEPT !.subs[w.inst.subscription_id].status =
                                 "cancel_at_period_end",
                               !.inst.subscription_id = NULL],
                     "stripe_cancel")
    ELSE Emit(w, "log_error")

\* _cancel_subscription downgrading at once
cancel_subscription_at_once(w, plan) ==
  IF w.exc # "none" THEN w
  ELSE Then(stripe_cancel_subscription(w), LAMBDA w1 :
       save([w1 EXCEPT !.inst.plan = plan, !.inst.next_plan = plan]))

\* _cancel_subscription saving the pending plan before it calls the gateway
cancel_subscription_local_first(w, plan) ==
  IF w.exc # "none" THEN w
  ELSE Then(save([w EXCEPT !.inst.next_plan = plan]), LAMBDA w1 :
       Then(stripe_cancel_subscription(w1), LAMBDA w2 : save(w2)))

\* Organization._cancel_subscription
_cancel_subscription(w, plan) ==
  IF w.exc # "none" THEN w
  ELSE Then(stripe_cancel_subscription(w), LAMBDA w1 :
       save([w1 EXCEPT !.inst.next_plan = plan]))

\* _modify_plan applying every change at once
modify_plan_at_once(w, plan, max_users) ==
  IF w.exc # "none" THEN w
  ELSE save([w EXCEPT !.inst.plan = plan, !.inst.next_plan = plan,
                      !.inst.max_users = max_users])

\* _modify_plan keeping the seat count on a downgrade
modify_plan_seats_deferred(w, plan, max_users) ==
  IF w.exc # "none" THEN w
  ELSE IF feature_level(plan) >= feature_level(w.inst.plan)
    THEN save([w EXCEPT !.inst.plan = plan, !.inst.next_plan = plan,
                        !.inst.max_users = max_users])
  ELSE save([w EXCEPT !.inst.next_plan = plan])

\* Organization._modify_plan
_modify_plan(w, plan, max_users) ==
  IF w.exc # "none" THEN w
  ELSE Then(IF feature_level(plan) >= feature_level(w.inst.plan)
              THEN [w EXCEPT !.inst.plan = plan, !.inst.next_plan = plan]
              ELSE [w EXCEPT !.inst.next_plan = plan], LAMBDA w1 :
       save([w1 EXCEPT !.inst.max_users = max_users]))

\* _modify_subscription failing when there is no subscription to modify
modify_subscription_strict(w, plan, max_users) ==
  IF w.exc # "none" THEN w
  ELSE IF w.fail = "subscription" \/ ~subscription(w)
    THEN Raise(Emit(w, "stripe_modify_failed"), "StripeError")
  ELSE Then(Emit([w EXCEPT !.subs[w.inst.subscription_id].status = "active"],
                 "stripe_modify"), LAMBDA w1 :
       _modify_plan(w1, plan, max_users))

\* _modify_subscription going on to modify after the fallback
modify_subscription_no_return(w, plan, max_users) ==
  IF w.exc # "none" THEN w
  ELSE Then(IF ~subscription(w)
              THEN Then(Emit(w, "log_warning"), LAMBDA w1 :
                   _create_subscription(w1, plan, max_users))
              ELSE w, LAMBDA w2 :
       IF w2.exc # "none" THEN w2
       ELSE IF w2.fail = "subscription" \/ ~subscription(w2)
         THEN Raise(Emit(w2, "stripe_modify_failed"), "StripeError")
       ELSE Then(Emit([w2 EXCEPT !.subs[w2.inst.subscription_id].status = "active"],
                      "stripe_modify"), LAMBDA w3 :
            _modify_plan(w3, plan, max_users)))

\* Organization._modify_subscription
_modify_subscription(w, plan, max_users) ==
  IF w.exc # "none" THEN w
  ELSE IF ~subscription(w)
    THEN Then(Emit(w, "log_warning"), LAMBDA w1 :
         _create_subscription(w1, plan, max_users))
  ELSE IF w.fail = "subscription"
    THEN Raise(Emit(w, "stripe_modify_failed"), "StripeError")
  ELSE Then(Emit([w EXCEPT !.subs[w.inst.subscription_id].status = "active"],
                 "stripe_modify"), LAMBDA w1 :
       _modify_plan(w1, plan, max_users))

\* change_logs.create: one INSERT into the change-log table
change_logs_create(w, row) ==
  IF w.exc # "none" THEN w
  ELSE IF w.fail = "db" THEN Raise(w, "DatabaseError")
  ELSE Then(DbWrite(w, [w.db EXCEPT !.log = Append(@, row)]), LAMBDA w1 :
       Emit(w1, "log"))

\* which of the four transitions set_subscription takes
Branch(current, plan) ==
  IF free(current) /\ ~free(plan) THEN "create"
  ELSE IF ~free(current) /\ free(plan) THEN "cancel"
  ELSE IF ~free(current) /\ ~free(plan) THEN "modify"
  ELSE "plan"

\* the transition set_subscription dispatches to
transition(w, plan, max_users) ==
  LET branch == Branch(w.inst.plan, plan)
  IN CASE branch = "create" ->
            Then(customer(w), LAMBDA w1 : _create_subscription(w1, plan, max_users))
       [] branch = "cancel" -> _cancel_subscription(w, plan)
       [] branch = "modify" ->
            Then(customer(w), LAMBDA w1 : _modify_subscription(w1, plan, max_users))
       [] branch = "plan" -> _modify_plan(w, plan, max_users)

\* set_subscription taking the "from" snapshot after the transition
set_subscription_late_snapshot(w, token, plan, max_users_arg, user) ==
  LET max_users == IF w.inst.individual THEN IndividualMaxUsers ELSE max_users_arg
  IN Then(IF token # NoToken THEN save_card(w, token) ELSE w, LAMBDA w1 :
     Then(transition(w1, plan, max_users), LAMBDA w2 :
     change_logs_create(w2, [user |-> user, reason |-> UPDATED,
                             from_plan |-> w2.inst.plan,
                             from_next_plan |-> w2.inst.next_plan,
                             from_max_users |-> w2.inst.max_users,
                             to_plan |-> w2.inst.plan,
                             to_next_plan |-> w2.inst.next_plan,
                             to_max_users |-> w2.inst.max_users])))

\* set_subscription passing the caller's seat count on as it is
set_subscription_unforced(w, token, plan, max_users_arg, user) ==
  Then(IF token # NoToken THEN save_card(w, token) ELSE w, LAMBDA w1 :
  Then(transition(w1, plan, max_users_arg), LAMBDA w2 :
  change_logs_create(w2, [user |-> user, reason |-> UPDATED,
                          from_plan |-> w1.inst.plan,
                          from_next_plan |-> w1.inst.next_plan,
                          from_max_users |-> w1.inst.max_users,
                          to_plan |-> w2.inst.plan,
                          to_next_plan |-> w2.inst.next_plan,
                          to_max_users |-> w2.inst.max_users])))

\* set_subscription saving the card after the transition
set_subscription_card_last(w, token, plan, max_users_arg, user) ==
  LET max_users == IF w.inst.individual THEN IndividualMaxUsers ELSE max_users_arg
  IN Then(transition(w, plan, max_users), LAMBDA w1 :
     Then(IF token # NoToken THEN save_card(w1, token) ELSE w1, LAMBDA w2 :
     change_logs_create(w2, [user |-> user, reason |-> UPDATED,
                             from_plan |-> w.inst.plan,
                             from_next_plan |-> w.inst.next_plan,
                             from_max_users |-> w.inst.max_users,
                             to_plan |-> w2.inst.plan,
                             to_next_plan |-> w2.inst.next_plan,
                             to_max_users |-> w2.inst.max_users])))

\* Organization.set_subscription
set_subscription(w, token, plan, max_users_arg, user) ==
  LET max_users == IF w.inst.individual THEN IndividualMaxUsers ELSE max_users_arg
  IN Then(IF token # NoToken THEN save_card(w, token) ELSE w, LAMBDA w1 :
     Then(transition(w1, plan, max_users), LAMBDA w2 :
     change_logs_create(w2, [user |-> user, reason |-> UPDATED,
                             from_plan |-> w1.inst.plan,
                             from_next_plan |-> w1.inst.next_plan,
                             from_max_users |-> w1.inst.max_users,
                             to_plan |-> w2.inst.plan,
                             to_next_plan |-> w2.inst.next_plan,
                             to_max_users |-> w2.inst.max_users])))

\* subscription_cancelled leaving the pending plan alone
subscription_cancelled_keeps_next(w) ==
  LET free_plan == "free"
  IN Then(change_logs_create(w, [user |-> NoUser, reason |-> FAILED,
                                 from_plan |-> w.inst.plan,
                                 from_next_plan |-> w.inst.next_plan,
                                 from_max_users |-> w.inst.max_users,
                                 to_plan |-> free_plan,
                                 to_next_plan |-> free_plan,
                                 to_max_users |-> w.inst.max_users]), LAMBDA w1 :
     save([w1 EXCEPT !.inst.subscription_id = NULL, !.inst.plan = free_plan]))

\* Organization.subscription_cancelled
subscription_cancelled(w) ==
  LET free_plan == "free"
  IN Then(change_logs_create(w, [user |-> NoUser, reason |-> FAILED,
                                 from_plan |-> w.inst.plan,
                                 from_next_plan |-> w.inst.next_plan,
                                 from_max_users |-> w.inst.max_users,
                                 to_plan |-> free_plan,
                                 to_next_plan |-> free_plan,
                                 to_max_users |-> w.inst.max_users]), LAMBDA w1 :
     save([w1 EXCEPT !.inst.subscription_id = NULL, !.inst.plan = free_plan,
                     !.inst.next_plan = free_plan]))

\* ------------------------------------------------------------- operations
\* the record kept of the last operation
Outcome(op, w, args) ==
  [op |-> op, args |-> args, pre |-> org, exc |-> w.exc, events |-> w.events]

\* no request is being served
Idle == last.op = "idle"

\* the state a finished request leaves behind
Leaves(w) ==
  /\ Len(w.subs) <= MaxSubs
  /\ org' = w.committed.org
  /\ change_logs' = w.committed.log
  /\ subs' = w.subs

\* a new organization on the free plan
NewOrganization(individual) ==
  [exists |-> TRUE, plan |-> "free", next_plan |-> "free",
   max_users |-> IF individual THEN IndividualMaxUsers ELSE DefaultMaxUsers,
   update_on |-> NULL, customer_id |-> NULL, subscription_id |-> NULL,
   payment_failed |-> FALSE, individual |-> individual]

\* Organization.objects.create
create(w, row) ==
  IF w.exc # "none" THEN w ELSE save([w EXCEPT !.inst = row])

\* an organization created outside signup (the admin's create_individual,
\* or a group organization with its Created change-log row)
create_organization(w) ==
  Then(create(w, NewOrganization(w.inst.individual)), LAMBDA w1 :
    IF w.inst.individual THEN w1
    ELSE change_logs_create(w1, [user |-> "alice", reason |-> CREATED,
                                 from_plan |-> NoPlan, from_next_plan |-> NoPlan,
                                 from_max_users |-> NULL,
                                 to_plan |-> w1.inst.plan,
                                 to_next_plan |-> w1.inst.next_plan,
                                 to_max_users |-> w1.inst.max_users]))

\* SignupForm.save: everything inside one atomic block; a StripeError raised
\* by set_subscription is caught and reported to the user
SignupForm_save(w, token, plan) ==
  Then(AtomicEnter(w), LAMBDA w1 :
  Then(IF w.inst.individual \/ ~free(plan) THEN create_organization(w1) ELSE w1,
       LAMBDA w2 :
  Then(IF ~free(plan)
         THEN set_subscription(w2, token, plan,
                IF w.inst.individual THEN IndividualMaxUsers ELSE DefaultMaxUsers,
                "alice")
         ELSE w2, LAMBDA w3 :
  Then(IF w3.exc = "StripeError"
         THEN Emit([w3 EXCEPT !.exc = "none"], "message_error")
         ELSE w3, LAMBDA w4 :
  AtomicExit(w4)))))

CreateWith(failures) ==
  /\ Idle
  /\ ~org.exists
  /\ \E fail \in failures \cap {"none", "db"} :
       /\ fail = "db" => ~org.individual
       /\ \E w \in {create_organization(World(fail))} :
            /\ Leaves(w)
            /\ last' = Outcome("create", w, [fail |-> fail])
  /\ UNCHANGED <<loaded, retry, invitation, memberships, today, charges, receipts>>

Create == CreateWith(Failures)

SignupWith(failures) ==
  /\ Idle
  /\ ~org.exists
  /\ \E token \in Tokens, plan \in Plans, fail \in failures :
       /\ org.individual \/ ~free(plan)
       /\ fail = "card" => token # NoToken
       /\ \E w \in {SignupForm_save(World(fail), token, plan)} :
            /\ Leaves(w)
            /\ last' = Outcome("signup", w,
                         [token |-> token, plan |-> plan, fail |-> fail])
  /\ UNCHANGED <<loaded, retry, invitation, memberships, today, charges, receipts>>

Signup == SignupWith(Failures)

SetSubscriptionWith(failures) ==
  /\ Idle
  /\ org.exists
  /\ \E token \in Tokens, plan \in Plans, max_users \in 1..MaxUsers,
        user \in Users, fail \in failures :
       /\ fail = "card" => token # NoToken
       /\ \E w \in {set_subscription(World(fail), token, plan, max_users, user)} :
            /\ Leaves(w)
            /\ last' = Outcome("set_subscription", w,
                         [token |-> token, plan |-> plan, max_users |-> max_users,
                          user |-> user, fail |-> fail])
  /\ UNCHANGED <<loaded, retry, invitation, memberships, today, charges, receipts>>

SetSubscription == SetSubscriptionWith(Failures)

\* handle_invoice_failed cancelling from the final attempt on
handle_invoice_failed_from_final(w, invoice_data) ==
  IF ~(w.db.org.exists /\ w.db.org.customer_id = invoice_data.customer)
    THEN Emit(w, "log_error")
  ELSE LET attempt == invoice_data.attempt_count
       IN Then(save([w EXCEPT !.inst.payment_failed = TRUE]), LAMBDA w1 :
          Then(IF attempt >= FinalAttempt THEN subscription_cancelled(w1) ELSE w1,
               LAMBDA w2 :
          IF w2.exc # "none" THEN w2
          ELSE Emit(w2, IF attempt >= FinalAttempt THEN "mail_cancelled"
                        ELSE "mail_failed")))

\* handle_invoice_failed letting the failed lookup propagate
handle_invoice_failed_raises(w, invoice_data) ==
  IF ~(w.db.org.exists /\ w.db.org.customer_id = invoice_data.customer)
    THEN Raise(w, "DoesNotExist")
  ELSE LET attempt == invoice_data.attempt_count
       IN Then(save([w EXCEPT !.inst.payment_failed = TRUE]), LAMBDA w1 :
          Then(IF attempt = FinalAttempt THEN subscription_cancelled(w1) ELSE w1,
               LAMBDA w2 :
          IF w2.exc # "none" THEN w2
          ELSE Emit(w2, IF attempt = FinalAttempt THEN "mail_cancelled"
                        ELSE "mail_failed")))

\* handle_invoice_failed
handle_invoice_failed(w, invoice_data) ==
  IF ~(w.db.org.exists /\ w.db.org.customer_id = invoice_data.customer)
    THEN Emit(w, "log_error")
  ELSE LET attempt == invoice_data.attempt_count
       IN Then(save([w EXCEPT !.inst.payment_failed = TRUE]), LAMBDA w1 :
          Then(IF attempt = FinalAttempt THEN subscription_cancelled(w1) ELSE w1,
               LAMBDA w2 :
          IF w2.exc # "none" THEN w2
          ELSE Emit(w2, IF attempt = FinalAttempt THEN "mail_cancelled"
                        ELSE "mail_failed")))

InvoiceFailed ==
  /\ Idle
  /\ \E cust \in Customers, attempt_count \in Attempts :
       \E invoice_data \in {[customer |-> cust, attempt_count |-> attempt_count]} :
         \E w \in {handle_invoice_failed(World("none"), invoice_data)} :
           /\ Leaves(w)
           /\ last' = Outcome("invoice_failed", w, invoice_data)
  /\ UNCHANGED <<loaded, retry, invitation, memberships, today, charges, receipts>>

\* the gateway delivering the invoice.payment_failed event just handled a
\* second time
InvoiceFailedAgain ==
  /\ last.op = "invoice_failed"
  /\ \E w \in {handle_invoice_failed(World("none"), last.args)} :
       /\ Leaves(w)
       /\ last' = Outcome("invoice_failed_again", w, last.args)
  /\ UNCHANGED <<loaded, retry, invitation, memberships, today, charges, receipts>>

\* the payment of an invoice of one of the customer's subscriptions fails:
\* at the final attempt the gateway cancels that subscription, and it
\* delivers invoice.payment_failed
SubscriptionInvoiceFailed ==
  /\ Idle
  /\ org.exists
  /\ org.customer_id # NULL
  /\ \E sub \in 1..Len(subs), attempt_count \in Attempts :
       /\ subs[sub].status # "canceled"
       /\ \E invoice_data \in {[customer |-> org.customer_id,
                                 attempt_count |-> attempt_count,
                                 subscription |-> sub]} :
            \E gateway \in {[World("none") EXCEPT !.subs[sub].status =
                                IF attempt_count = FinalAttempt THEN "canceled" ELSE @]} :
              \E w \in {handle_invoice_failed(gateway, invoice_data)} :
                /\ Leaves(w)
                /\ last' = Outcome("invoice_failed", w, invoice_data)
  /\ UNCHANGED <<loaded, retry, invitation, memberships, today, charges, receipts>>

\* str.startswith with a tuple of prefixes
startswith(str, prefixes) == Len(str) > 0 /\ str[1] \in prefixes

\* get_description of handle_charge_succeeded
get_description(charge_data) ==
  IF charge_data.invoice # NoInvoice THEN charge_data.invoice[2] ELSE "charge"

\* get_or_create that never finds the row
get_or_create_blind(table, row_org, charge_data) ==
  LET known == row_org.exists /\ row_org.customer_id = charge_data.customer
  IN IF ~known THEN [table |-> table, created |-> FALSE, exc |-> "DoesNotExist"]
     ELSE [table |-> Append(table, [charge_id |-> charge_data.id,
                                    organization |-> charge_data.customer,
                                    description |-> get_description(charge_data)]),
           created |-> TRUE, exc |-> "none"]

\* Charge.objects.get_or_create(charge_id=...): the rows found, the table
\* afterwards and whether the organization lookup of the defaults failed
get_or_create(table, row_org, charge_data) ==
  LET found == {i \in 1..Len(table) : table[i].charge_id = charge_data.id}
      known == row_org.exists /\ row_org.customer_id = charge_data.customer
  IN IF found # {} THEN [table |-> table, created |-> FALSE, exc |-> "none"]
     ELSE IF ~known THEN [table |-> table, created |-> FALSE, exc |-> "DoesNotExist"]
     ELSE [table |-> Append(table, [charge_id |-> charge_data.id,
                                    organization |-> charge_data.customer,
                                    description |-> get_description(charge_data)]),
           created |-> TRUE, exc |-> "none"]

\* handle_charge_succeeded looking at the invoice line only, not at the
\* metadata of a charge without invoice
handle_charge_succeeded_invoice_only(table, sent, row_org, charge_data) ==
  IF charge_data.customer = NULL
    THEN [charges |-> table, receipts |-> sent, exc |-> "none", created |-> FALSE]
  ELSE IF charge_data.invoice # NoInvoice
          /\ startswith(charge_data.invoice, {"donate", "crowdfund"})
    THEN [charges |-> table, receipts |-> sent, exc |-> "none", created |-> FALSE]
  ELSE Then(get_or_create(table, row_org, charge_data), LAMBDA r :
       IF r.exc # "none"
         THEN [charges |-> table, receipts |-> sent, exc |-> r.exc, created |-> FALSE]
         ELSE [charges |-> r.table,
               receipts |-> [sent EXCEPT ![charge_data.id] = @ + 1],
               exc |-> "none", created |-> r.created])

\* handle_charge_succeeded returning quietly when the organization is not
\* found
handle_charge_succeeded_drops_unknown(table, sent, row_org, charge_data) ==
  IF charge_data.customer = NULL
    THEN [charges |-> table, receipts |-> sent, exc |-> "none", created |-> FALSE]
  ELSE IF charge_data.invoice # NoInvoice
          /\ startswith(charge_data.invoice, {"donate", "crowdfund"})
    THEN [charges |-> table, receipts |-> sent, exc |-> "none", created |-> FALSE]
  ELSE IF charge_data.invoice = NoInvoice
          /\ charge_data.action \in {"donation", "crowdfund-payment"}
    THEN [charges |-> table, receipts |-> sent, exc |-> "none", created |-> FALSE]
  ELSE Then(get_or_create(table, row_org, charge_data), LAMBDA r :
       IF r.exc # "none"
         THEN [charges |-> table, receipts |-> sent, exc |-> "none", created |-> FALSE]
         ELSE [charges |-> r.table,
               receipts |-> [sent EXCEPT ![charge_data.id] = @ + 1],
               exc |-> "none", created |-> r.created])

\* handle_charge_succeeded: the Charge table and the receipts it leaves,
\* with the exception that makes the task retry
handle_charge_succeeded(table, sent, row_org, charge_data) ==
  IF charge_data.customer = NULL
    THEN [charges |-> table, receipts |-> sent, exc |-> "none", created |-> FALSE]
  ELSE IF charge_data.invoice # NoInvoice
          /\ startswith(charge_data.invoice, {"donate", "crowdfund"})
    THEN [charges |-> table, receipts |-> sent, exc |-> "none", created |-> FALSE]
  ELSE IF charge_data.invoice = NoInvoice
          /\ charge_data.action \in {"donation", "crowdfund-payment"}
    THEN [charges |-> table, receipts |-> sent, exc |-> "none", created |-> FALSE]
  ELSE Then(get_or_create(table, row_org, charge_data), LAMBDA r :
       IF r.exc # "none"
         THEN [charges |-> table, receipts |-> sent, exc |-> r.exc, created |-> FALSE]
         ELSE [charges |-> r.table,
               receipts |-> [sent EXCEPT ![charge_data.id] = @ + 1],
               exc |-> "none", created |-> r.created])

\* receipts sent so far
RECURSIVE Total(_, _)
Total(sent, n) == IF n = 0 THEN 0 ELSE sent[n] + Total(sent, n - 1)

\* no task waits for a retry
NoRetry == [pending |-> FALSE]

ChargeSucceeded ==
  /\ Idle
  /\ ~retry.pending
  /\ \E id \in ChargeIds, cust \in Customers \cup {NULL}, invoice \in InvoicePlans,
        action \in MetadataActions :
       \E charge_data \in {[id |-> id, customer |-> cust, invoice |-> invoice,
                             action |-> action]} :
         \E r \in {handle_charge_succeeded(charges, receipts, org, charge_data)} :
           /\ Total(r.receipts, MaxCharges) <= MaxReceipts
           /\ charges' = r.charges
           /\ receipts' = r.receipts
           /\ retry' = IF r.exc = "DoesNotExist"
                         THEN [pending |-> TRUE, args |-> charge_data, retries |-> 0]
                         ELSE NoRetry
           /\ last' = [op |-> "charge_succeeded", args |-> charge_data, pre |-> org,
                       exc |-> r.exc, events |-> <<>>, created |-> r.created,
                       charges |-> charges, receipts |-> receipts]
  /\ change_logs' = <<>>
  /\ UNCHANGED <<loaded, invitation, memberships, org, subs, today>>

\* autoretry_for=(Organization.DoesNotExist,): the task runs again, and is
\* given up when it fails after max_retries retries
ChargeRetry ==
  /\ Idle
  /\ retry.pending
  /\ \E r \in {handle_charge_succeeded(charges, receipts, org, retry.args)} :
       /\ Total(r.receipts, MaxCharges) <= MaxReceipts
       /\ charges' = r.charges
       /\ receipts' = r.receipts
       /\ retry' = IF r.exc = "DoesNotExist" /\ retry.retries + 1 < max_retries
                     THEN [retry EXCEPT !.retries = @ + 1]
                     ELSE NoRetry
       /\ last' = [op |-> "charge_retry", args |-> retry.args, pre |-> org,
                   exc |-> r.exc, events |-> <<>>, created |-> r.created,
                   charges |-> charges, receipts |-> receipts]
  /\ change_logs' = <<>>
  /\ UNCHANGED <<loaded, invitation, memberships, org, subs, today>>

\* restore_organization: two bulk UPDATEs on the organizations whose
\* update_on has come, the second on the re-evaluated queryset
Due(row, day) == row.exists /\ row.update_on # NULL /\ row.update_on <= day

NextPlanFree(row) == base_price(row.next_plan) = 0 /\ price_per_user(row.next_plan) = 0

\* restore_organization giving every due organization a next reset date
restore_organization_always_dated(row, day) ==
  IF Due(row, day)
    THEN [row EXCEPT !.update_on = day + Month, !.plan = row.next_plan]
    ELSE row

\* restore_organization setting the next reset date to the day of the run
restore_organization_same_day(row, day) ==
  LET r1 == IF Due(row, day) /\ NextPlanFree(row)
              THEN [row EXCEPT !.update_on = NULL, !.plan = row.next_plan]
              ELSE row
  IN IF Due(r1, day) /\ ~NextPlanFree(r1)
       THEN [r1 EXCEPT !.update_on = day, !.plan = r1.next_plan]
       ELSE r1

\* restore_organization also clearing the payment flag of the organizations
\* it updates
restore_organization_clears_flag(row, day) ==
  LET r1 == IF Due(row, day) /\ NextPlanFree(row)
              THEN [row EXCEPT !.update_on = NULL, !.plan = row.next_plan,
                               !.payment_failed = FALSE]
              ELSE row
  IN IF Due(r1, day) /\ ~NextPlanFree(r1)
       THEN [r1 EXCEPT !.update_on = day + Month, !.plan = r1.next_plan,
                       !.payment_failed = FALSE]
       ELSE r1

restore_organization(row, day) ==
  LET r1 == IF Due(row, day) /\ NextPlanFree(row)
              THEN [row EXCEPT !.update_on = NULL, !.plan = row.next_plan]
              ELSE row
  IN IF Due(r1, day) /\ ~NextPlanFree(r1)
       THEN [r1 EXCEPT !.update_on = day + Month, !.plan = r1.next_plan]
       ELSE r1

Restore ==
  /\ Idle
  /\ org' = restore_organization(org, today)
  /\ change_logs' = <<>>
  /\ last' = [op |-> "restore", args |-> [uuids |-> IF Due(org, today) THEN {1} ELSE {}],
              pre |-> org, exc |-> "none",
              events |-> <<[e |-> "cache", depth |-> 0, dirty |-> FALSE]>>]
  /\ UNCHANGED <<loaded, retry, invitation, memberships, subs, today, charges, receipts>>

\* the scheduler invoking restore_organization a second time, right after
\* a run and on the same day
RestoreAgain ==
  /\ last.op = "restore"
  /\ org' = restore_organization(org, today)
  /\ change_logs' = <<>>
  /\ last' = [op |-> "restore_again",
              args |-> [uuids |-> IF Due(org, today) THEN {1} ELSE {}],
              first |-> last.args.uuids, pre |-> org, exc |-> "none",
              events |-> <<[e |-> "cache", depth |-> 0, dirty |-> FALSE]>>]
  /\ UNCHANGED <<loaded, retry, invitation, memberships, subs, today, charges, receipts>>

\* a new invitation: pending, for a user or for an email address only
NewInvitation(user) ==
  [exists |-> TRUE, user |-> user, accepted_at |-> NULL, rejected_at |-> NULL]

\* Invitation.accept without the check for a closed invitation
accept_unchecked(inv, members, user, now) ==
  IF inv.user = NoUser /\ user = NoUser
    THEN [invitation |-> inv, memberships |-> members, exc |-> "ValueError"]
  ELSE LET accepted == [inv EXCEPT !.user = IF @ = NoUser THEN user ELSE @,
                                   !.accepted_at = now]
       IN [invitation |-> accepted,
           memberships |-> IF accepted.user \in members THEN members
                           ELSE members \cup {accepted.user},
           exc |-> "none"]

\* Invitation.accept creating the membership without asking has_member: the
\* table's unique constraint rejects a second row, and the atomic block
\* rolls the call back
accept_always_creates(inv, members, user, now) ==
  IF inv.user = NoUser /\ user = NoUser
    THEN [invitation |-> inv, memberships |-> members, exc |-> "ValueError"]
  ELSE IF inv.accepted_at # NULL \/ inv.rejected_at # NULL
    THEN [invitation |-> inv, memberships |-> members, exc |-> "ValueError"]
  ELSE LET accepted == [inv EXCEPT !.user = IF @ = NoUser THEN user ELSE @,
                                   !.accepted_at = now]
       IN IF accepted.user \in members
            THEN [invitation |-> inv, memberships |-> members,
                  exc |-> "IntegrityError"]
            ELSE [invitation |-> accepted,
                  memberships |-> members \cup {accepted.user}, exc |-> "none"]

\* Invitation.accept: the invitation row and the memberships it leaves, and
\* the exception it raises
accept(inv, members, user, now) ==
  IF inv.user = NoUser /\ user = NoUser
    THEN [invitation |-> inv, memberships |-> members, exc |-> "ValueError"]
  ELSE IF inv.accepted_at # NULL \/ inv.rejected_at # NULL
    THEN [invitation |-> inv, memberships |-> members, exc |-> "ValueError"]
  ELSE LET accepted == [inv EXCEPT !.user = IF @ = NoUser THEN user ELSE @,
                                   !.accepted_at = now]
       IN [invitation |-> accepted,
           memberships |-> IF accepted.user \in members THEN members
                           ELSE members \cup {accepted.user},
           exc |-> "none"]

\* Invitation.reject without the check for a closed invitation
reject_unchecked(inv, members, now) ==
  [invitation |-> [inv EXCEPT !.rejected_at = now], memberships |-> members,
   exc |-> "none"]

\* Invitation.reject
reject(inv, members, now) ==
  IF inv.accepted_at # NULL \/ inv.rejected_at # NULL
    THEN [invitation |-> inv, memberships |-> members, exc |-> "ValueError"]
  ELSE [invitation |-> [inv EXCEPT !.rejected_at = now], memberships |-> members,
        exc |-> "none"]

\* what an accept or reject call found and raised
InvitationOutcome(op, user, r) ==
  [op |-> op, args |-> [user |-> user],
   pre |-> [invitation |-> invitation, memberships |-> memberships],
   exc |-> r.exc, events |-> <<>>]

\* an invitation to the organization is sent
Invite ==
  /\ Idle
  /\ org.exists
  /\ ~invitation.exists
  /\ \E user \in Invitees : invitation' = NewInvitation(user)
  /\ UNCHANGED <<loaded, retry, org, change_logs, subs, today, charges, receipts, memberships, last>>

Accept ==
  /\ Idle
  /\ invitation.exists
  /\ \E user \in Invitees :
       \E r \in {accept(invitation, memberships, user, today)} :
         /\ invitation' = r.invitation
         /\ memberships' = r.memberships
         /\ last' = InvitationOutcome("accept", user, r)
  /\ change_logs' = <<>>
  /\ UNCHANGED <<loaded, retry, org, subs, today, charges, receipts>>

Reject ==
  /\ Idle
  /\ invitation.exists
  /\ \E r \in {reject(invitation, memberships, today)} :
       /\ invitation' = r.invitation
       /\ memberships' = r.memberships
       /\ last' = InvitationOutcome("reject", NoUser, r)
  /\ change_logs' = <<>>
  /\ UNCHANGED <<loaded, retry, org, subs, today, charges, receipts>>

\* a further invitation to the organization is sent once the last one is
\* closed; the model follows the newest invitation
InviteAgain ==
  /\ Idle
  /\ invitation.exists
  /\ invitation.accepted_at # NULL \/ invitation.rejected_at # NULL
  /\ \E user \in Invitees : invitation' = NewInvitation(user)
  /\ UNCHANGED <<loaded, retry, org, change_logs, subs, today, charges, receipts,
                 memberships, last>>

\* no request holds a copy it loaded earlier
NoCopy == [pending |-> FALSE]

\* the world of a request whose instance is a copy loaded earlier: the
\* connection sees the row as it is now
Stale(row) == [World("none") EXCEPT !.inst = row]

\* one of the operations that write the organization, run in world w
Perform(a, w) ==
  CASE a.op = "set_subscription" ->
         set_subscription(w, a.args.token, a.args.plan, a.args.max_users, a.args.user)
    [] a.op = "invoice_failed" -> handle_invoice_failed(w, a.args)
    [] a.op = "restore" ->
         Then(restore_organization(w.db.org, w.today), LAMBDA row :
         [w EXCEPT !.db.org = row, !.committed.org = row, !.inst = row])

\* a view or a task loads the organization (Organization.objects.get) for a
\* set_subscription call or for a payment-failed event, and is overtaken
LoadOrganization ==
  /\ Idle
  /\ org.exists
  /\ ~loaded.pending
  /\ \/ \E token \in {NoToken}, plan \in Plans, max_users \in 1..MaxUsers :
          loaded' = [pending |-> TRUE, op |-> "set_subscription",
                     args |-> [token |-> token, plan |-> plan, max_users |-> max_users,
                               user |-> NoUser, fail |-> "none"],
                     row |-> org, subs |-> subs]
     \/ \E attempt_count \in Attempts :
          /\ org.customer_id = CustomerId
          /\ loaded' = [pending |-> TRUE, op |-> "invoice_failed",
                        args |-> [customer |-> CustomerId,
                                  attempt_count |-> attempt_count],
                        row |-> org, subs |-> subs]
  /\ UNCHANGED <<retry, invitation, memberships, org, change_logs, subs, today,
                 charges, receipts, last>>

\* the overtaken request goes on with the copy it loaded, after another
\* request on the organization has been served
ResumeOrganization ==
  /\ loaded.pending
  /\ loaded.op \in {"set_subscription", "invoice_failed"}
  /\ last.op \in {"set_subscription", "invoice_failed", "restore"}
  /\ \E w \in {Perform(loaded, Stale(loaded.row))} :
       /\ Leaves(w)
       /\ last' = [op |-> "concurrent",
                   first |-> [op |-> loaded.op, args |-> loaded.args],
                   second |-> [op |-> last.op, args |-> last.args],
                   start |-> [row |-> loaded.row, subs |-> loaded.subs],
                   between |-> org, exc |-> w.exc, events |-> w.events]
  /\ loaded' = NoCopy
  /\ UNCHANGED <<retry, invitation, memberships, today, charges, receipts>>

\* a view loads the invitation for accept or reject, and is overtaken
LoadInvitation ==
  /\ Idle
  /\ invitation.exists
  /\ ~loaded.pending
  /\ \E op \in {"accept", "reject"}, user \in Invitees :
       /\ op = "reject" => user = NoUser
       /\ loaded' = [pending |-> TRUE, op |-> op, args |-> [user |-> user],
                     row |-> invitation]
  /\ UNCHANGED <<retry, invitation, memberships, org, change_logs, subs, today,
                 charges, receipts, last>>

\* the overtaken accept or reject goes on with the copy it loaded, after
\* another accept or reject of the invitation has been served
ResumeInvitation ==
  /\ loaded.pending
  /\ loaded.op \in {"accept", "reject"}
  /\ last.op \in {"accept", "reject"}
  /\ \E r \in {IF loaded.op = "accept"
                  THEN accept(loaded.row, memberships, loaded.args.user, today)
                  ELSE reject(loaded.row, memberships, today)} :
       /\ invitation' = IF r.exc = "none" THEN r.invitation ELSE invitation
       /\ memberships' = r.memberships
       /\ last' = [op |-> "concurrent_invitation",
                   first |-> [op |-> loaded.op, args |-> loaded.args, exc |-> r.exc],
                   second |-> [op |-> last.op, args |-> last.args, exc |-> last.exc],
                   start |-> last.pre, exc |-> r.exc, events |-> <<>>]
  /\ loaded' = NoCopy
  /\ change_logs' = <<>>
  /\ UNCHANGED <<retry, org, subs, today, charges, receipts>>

\* the clock: a day passes
Tick ==
  /\ Idle
  /\ today < MaxDay
  /\ today' = today + 1
  /\ UNCHANGED <<loaded, retry, invitation, memberships, org, change_logs, subs, charges, receipts, last>>

NoOutcome == [op |-> "idle"]

\* the request is over: its record is dropped
Return ==
  /\ ~Idle
  /\ last' = NoOutcome
  /\ change_logs' = <<>>
  /\ UNCHANGED <<loaded, retry, invitation, memberships, org, subs, today, charges, receipts>>

\* the request is over and no other request is held up
ReturnQuiet == ~loaded.pending /\ Return

Init ==
  /\ \E individual \in BOOLEAN :
       org = [NewOrganization(individual) EXCEPT !.exists = FALSE]
  /\ change_logs = <<>>
  /\ subs = <<>>
  /\ today = 0
  /\ charges = <<>>
  /\ receipts = [c \in ChargeIds |-> 0]
  /\ invitation = [NewInvitation(NoUser) EXCEPT !.exists = FALSE]
  /\ memberships = {}
  /\ retry = NoRetry
  /\ loaded = NoCopy
  /\ last = NoOutcome

Next ==
  \/ Create
  \/ Signup
  \/ SetSubscription
  \/ InvoiceFailed
  \/ Restore
  \/ RestoreAgain
  \/ Tick
  \/ Return

Spec == Init /\ [][Next]_vars

\* the same requests when neither the gateway nor the database fails
ReliableCreate == CreateWith({"none"})

ReliableSignup == SignupWith({"none"})

ReliableSetSubscription == SetSubscriptionWith({"none"})

NextReliable ==
  \/ ReliableCreate
  \/ ReliableSignup
  \/ ReliableSetSubscription
  \/ InvoiceFailed
  \/ Restore
  \/ RestoreAgain
  \/ Tick
  \/ Return

SpecReliable == Init /\ [][NextReliable]_vars

\* the same with every payment-failed event possibly delivered twice
NextRedelivery ==
  \/ ReliableCreate
  \/ ReliableSignup
  \/ ReliableSetSubscription
  \/ InvoiceFailed
  \/ InvoiceFailedAgain
  \/ Restore
  \/ RestoreAgain
  \/ Tick
  \/ Return

SpecRedelivery == Init /\ [][NextRedelivery]_vars

\* the same with the payment-failed events the gateway sends for the
\* invoices of the organization's subscriptions
NextGateway ==
  \/ ReliableCreate
  \/ ReliableSignup
  \/ ReliableSetSubscription
  \/ SubscriptionInvoiceFailed
  \/ Restore
  \/ RestoreAgain
  \/ Tick
  \/ Return

SpecGateway == Init /\ [][NextGateway]_vars

\* two requests on the organization, the second served between the first's
\* load and its writes
NextConcurrent ==
  \/ ReliableCreate
  \/ ReliableSignup
  \/ ReliableSetSubscription
  \/ InvoiceFailed
  \/ Restore
  \/ LoadOrganization
  \/ ResumeOrganization
  \/ Tick
  \/ ReturnQuiet

SpecConcurrent == Init /\ [][NextConcurrent]_vars

\* invitations sent one after another
NextInvitationAgain ==
  \/ ReliableCreate
  \/ Invite
  \/ InviteAgain
  \/ Accept
  \/ Reject
  \/ Tick
  \/ Return

SpecInvitationAgain == Init /\ [][NextInvitationAgain]_vars

\* two calls on the invitation, the second served between the first's load
\* and its writes
NextConcurrentInvitation ==
  \/ ReliableCreate
  \/ Invite
  \/ Accept
  \/ Reject
  \/ LoadInvitation
  \/ ResumeInvitation
  \/ Tick
  \/ ReturnQuiet

SpecConcurrentInvitation == Init /\ [][NextConcurrentInvitation]_vars

\* the same requests when only the card can be declined
CardSignup == SignupWith({"none", "card"})

CardSetSubscription == SetSubscriptionWith({"none", "card"})

NextCard ==
  \/ ReliableCreate
  \/ CardSignup
  \/ CardSetSubscription
  \/ InvoiceFailed
  \/ Restore
  \/ RestoreAgain
  \/ Tick
  \/ Return

SpecCard == Init /\ [][NextCard]_vars

\* invitations to an organization, answered over the days
NextInvitation ==
  \/ ReliableCreate
  \/ Invite
  \/ Accept
  \/ Reject
  \/ Tick
  \/ Return

SpecInvitation == Init /\ [][NextInvitation]_vars

\* the same with the clock advancing and the scheduler running the rollover
\* job every day, and every request returning
SpecDaily ==
  /\ Init
  /\ [][NextReliable]_vars
  /\ SF_vars(Tick)
  /\ WF_vars(Restore)
  /\ WF_vars(Return)

\* the charge.succeeded webhook, next to the requests that create the
\* organization and register its customer id
NextCharge ==
  \/ Create
  \/ Signup
  \/ ChargeSucceeded
  \/ ChargeRetry
  \/ Return

SpecCharge == Init /\ [][NextCharge]_vars

\* the same with the worker running every waiting retry and every request
\* returning
SpecChargeRetry ==
  /\ Init
  /\ [][NextCharge]_vars
  /\ WF_vars(ChargeRetry)
  /\ WF_vars(Return)

\* ------------------------------------------------------------- properties
\* the request just served issued event e
Issued(e) == \E i \in 1..Len(last.events) : last.events[i].e = e

\* the change-log rows of a reason that the request just served appended
Logged(reason) == SelectSeq(change_logs, LAMBDA r : r.reason = reason)

\* the seat count a call asks for: 1 for an individual organization
Requested == IF last.pre.individual THEN IndividualMaxUsers ELSE last.args.max_users

\* the request just served was set_subscription, taking the given branch
Called(branch) ==
  /\ last.op = "set_subscription"
  /\ Branch(last.pre.plan, last.args.plan) = branch

\* the row describes the transition from the row found to the row left
Snapshot(r, before, after) ==
  /\ r.from_plan = before.plan
  /\ r.from_next_plan = before.next_plan
  /\ r.from_max_users = before.max_users
  /\ r.to_plan = after.plan
  /\ r.to_next_plan = after.next_plan
  /\ r.to_max_users = after.max_users

\* C1: in every reachable state the organization's update_on is null exactly
\* when both its plan and its next_plan are free.
C1_UpdateOnNullIffFree ==
  org.exists => ((org.update_on = NULL) <=> (free(org.plan) /\ free(org.next_plan)))

\* C2: a set_subscription call that returns successfully appends exactly one
\* change-log row: reason Updated, the acting user, the values found before
\* the call as from_* and the values left after it as to_*; also when the
\* call runs inside the signup transaction.
C2_OneUpdatedRow ==
  /\ (last.op = "set_subscription" /\ last.exc = "none") =>
       /\ Len(change_logs) = 1
       /\ change_logs[1].reason = UPDATED
       /\ change_logs[1].user = last.args.user
       /\ Snapshot(change_logs[1], last.pre, org)
  /\ (last.op = "signup" /\ ~free(last.args.plan) /\ last.exc = "none"
        /\ ~Issued("message_error")) =>
       /\ Len(Logged(UPDATED)) = 1
       /\ Logged(UPDATED)[1].user = "alice"
       /\ Snapshot(Logged(UPDATED)[1], NewOrganization(last.pre.individual), org)

C2_Witness ==
  /\ Called("modify")
  /\ last.exc = "none"
  /\ last.pre.subscription_id # NULL
  /\ last.args.plan # last.pre.plan
  /\ Len(change_logs) = 1

\* C3: the Charge table never holds two rows with the same charge_id, and a
\* charge.succeeded event that is handled to the end leaves exactly one row
\* with its id, however often it is delivered.
C3_OneChargePerId ==
  /\ \A i, j \in 1..Len(charges) :
       charges[i].charge_id = charges[j].charge_id => i = j
  /\ (last.op = "charge_succeeded" /\ last.exc = "none"
        /\ (last.created \/ \E i \in 1..Len(last.charges) :
                              last.charges[i].charge_id = last.args.id)) =>
       Cardinality({i \in 1..Len(charges) : charges[i].charge_id = last.args.id}) = 1

\* a delivery that found the Charge of its id already there
Redelivered ==
  /\ last.op = "charge_succeeded"
  /\ last.exc = "none"
  /\ last.receipts # receipts
  /\ \E i \in 1..Len(last.charges) : last.charges[i].charge_id = last.args.id

C3_Witness == Redelivered /\ Len(charges) = MaxCharges

\* C4: at most one receipt is ever sent per charge_id: a delivery that finds
\* the Charge already present sends none.
C4_OneReceiptPerCharge == \A c \in ChargeIds : receipts[c] <= 1

\* C5: a successful free->paid set_subscription leaves plan = next_plan = the
\* new plan, max_users = the seats asked for (1 for an individual
\* organization), update_on = today + 1 month and subscription_id = the id
\* of the subscription created on the gateway.
C5_FreeToPaid ==
  (Called("create") /\ last.exc = "none") =>
    /\ org.plan = last.args.plan
    /\ org.next_plan = last.args.plan
    /\ org.max_users = Requested
    /\ org.update_on = today + Month
    /\ Issued("stripe_create")
    /\ org.subscription_id = Len(subs)
    /\ Len(subs) > 0
    /\ subs[Len(subs)].status = "active"

C5_Witness ==
  /\ Called("create")
  /\ last.exc = "none"
  /\ ~last.pre.individual
  /\ last.args.max_users # last.pre.max_users

\* C6: a free->paid set_subscription whose remote create-subscription call
\* fails leaves plan, next_plan, max_users, update_on and subscription_id as
\* they were and appends no change-log row.
C6_CreateFailureKeepsNothing ==
  (Called("create") /\ Issued("stripe_create_failed")) =>
    /\ org.plan = last.pre.plan
    /\ org.next_plan = last.pre.next_plan
    /\ org.max_users = last.pre.max_users
    /\ org.update_on = last.pre.update_on
    /\ org.subscription_id = last.pre.subscription_id
    /\ change_logs = <<>>

\* C7: the remote create-subscription call is issued only outside every
\* atomic block, with nothing uncommitted and after a commit, so that the
\* committed row carries the new plan; a transaction that rolls back issues
\* no call. This holds for set_subscription alone and inside signup.
C7_CreateAfterCommit ==
  (last.op \in {"set_subscription", "signup"}) =>
    \A i \in 1..Len(last.events) :
      (last.events[i].e \in {"stripe_create", "stripe_create_failed"}) =>
        /\ last.events[i].depth = 0
        /\ ~last.events[i].dirty
        /\ \E j \in 1..(i - 1) : last.events[j].e = "commit"
        /\ org.exists
        /\ org.plan = last.args.plan
        /\ org.update_on = today + Month

C7_Witness ==
  /\ last.op = "signup"
  /\ Issued("stripe_create")
  /\ Issued("log")

\* a downgrade to a free plan is pending on a paid organization
PendingCancel == org.exists /\ ~free(org.plan) /\ free(org.next_plan)

\* what a paid->free set_subscription leaves: plan untouched, and on success
\* next_plan = the free plan, the remote subscription marked
\* cancel-at-period-end and subscription_id cleared
CancelPost ==
  Called("cancel") =>
    /\ org.plan = last.pre.plan
    /\ last.exc = "none" =>
         /\ org.next_plan = last.args.plan
         /\ org.subscription_id = NULL
         /\ last.pre.subscription_id # NULL =>
              /\ Issued("stripe_cancel")
              /\ subs[last.pre.subscription_id].status = "cancel_at_period_end"

\* C8 as stated: a paid->free set_subscription leaves plan untouched (and on
\* success next_plan free, the remote subscription cancel-at-period-end,
\* subscription_id null), and from then on plan changes in no step but a
\* rollover run.
C8_PlanKeptUntilRollover ==
  /\ []CancelPost
  /\ [][PendingCancel => (org'.plan = org.plan \/ last'.op = "restore")]_vars

\* C8 amended: as above, but plan may also be changed by a later final
\* payment-failed event (to the free plan) or a later set_subscription call
\* to a paid plan (to that plan); a rollover run sets it to next_plan.
C8_PlanKeptUntilNextTransition ==
  /\ []CancelPost
  /\ [][PendingCancel =>
          \/ org'.plan = org.plan
          \/ last'.op = "restore" /\ org'.plan = org.next_plan
          \/ /\ last'.op = "invoice_failed"
             /\ last'.args.attempt_count = FinalAttempt
             /\ org'.plan = "free"
          \/ /\ last'.op = "set_subscription"
             /\ ~free(last'.args.plan)
             /\ org'.plan = last'.args.plan]_vars

C8_Witness ==
  /\ Called("cancel")
  /\ last.exc = "none"
  /\ last.pre.subscription_id # NULL
  /\ PendingCancel

\* what _modify_plan's rule leaves: the new plan at once when its
\* feature_level is not lower, otherwise only as next_plan; the seats asked
\* for in both cases
FeatureLevelRule ==
  /\ feature_level(last.args.plan) >= feature_level(last.pre.plan) =>
       org.plan = last.args.plan /\ org.next_plan = last.args.plan
  /\ feature_level(last.args.plan) < feature_level(last.pre.plan) =>
       org.plan = last.pre.plan /\ org.next_plan = last.args.plan
  /\ org.max_users = Requested

\* C9 as stated: every successful free->free and paid->paid set_subscription
\* follows the feature_level rule.
C9_FeatureLevelRuleAlways ==
  ((Called("plan") \/ Called("modify")) /\ last.exc = "none") => FeatureLevelRule

\* C9 amended: every successful free->free set_subscription, and every
\* successful paid->paid one that finds the organization's remote
\* subscription, follows the feature_level rule.
C9_FeatureLevelRuleWithSubscription ==
  ((Called("plan") \/ (Called("modify") /\ last.pre.subscription_id # NULL))
     /\ last.exc = "none") => FeatureLevelRule

C9_Witness ==
  /\ Called("modify")
  /\ last.exc = "none"
  /\ last.pre.subscription_id # NULL
  /\ feature_level(last.args.plan) < feature_level(last.pre.plan)
  /\ org.plan # org.next_plan

\* the request just served was the final payment-failed event of the
\* organization's customer
FinalFailure ==
  /\ last.op = "invoice_failed"
  /\ last.args.attempt_count = FinalAttempt
  /\ last.pre.exists
  /\ last.pre.customer_id = last.args.customer

\* C10: the payment-failed event with attempt_count 4 of a known
\* organization leaves plan = next_plan = the free plan, subscription_id
\* null, payment_failed true, and appends exactly one change-log row: reason
\* PaymentFailed, no user, from_* the values found, to_* the values left.
C10_FinalFailureDowngrades ==
  FinalFailure =>
    /\ org.plan = "free"
    /\ org.next_plan = "free"
    /\ org.subscription_id = NULL
    /\ org.payment_failed
    /\ Len(change_logs) = 1
    /\ change_logs[1].reason = FAILED
    /\ change_logs[1].user = NoUser
    /\ Snapshot(change_logs[1], last.pre, org)

C10_Witness ==
  /\ FinalFailure
  /\ ~free(last.pre.plan)
  /\ last.pre.next_plan # last.pre.plan
  /\ last.pre.subscription_id # NULL

\* a payment-failed event of the organization's customer that is not the
\* final one
EarlyFailure ==
  /\ last.op = "invoice_failed"
  /\ last.args.attempt_count # FinalAttempt
  /\ last.pre.exists
  /\ last.pre.customer_id = last.args.customer

\* C11: a payment-failed event with an attempt_count other than 4 of a known
\* organization sets payment_failed, leaves plan, next_plan, max_users,
\* update_on and subscription_id as they were and appends no change-log row.
C11_EarlyFailureOnlyFlags ==
  EarlyFailure =>
    /\ org.payment_failed
    /\ org.plan = last.pre.plan
    /\ org.next_plan = last.pre.next_plan
    /\ org.max_users = last.pre.max_users
    /\ org.update_on = last.pre.update_on
    /\ org.subscription_id = last.pre.subscription_id
    /\ change_logs = <<>>

C11_Witness ==
  /\ EarlyFailure
  /\ last.args.attempt_count > FinalAttempt
  /\ ~last.pre.payment_failed
  /\ last.pre.subscription_id # NULL

\* the rollover run just made found the organization's update_on on or
\* before today
WasDue ==
  /\ last.pre.exists
  /\ last.pre.update_on # NULL
  /\ last.pre.update_on <= today

\* C12: a rollover run gives an organization whose update_on is on or before
\* today plan = next_plan, and update_on = null when next_plan is free,
\* today + 1 month when it is not; it changes no other organization.
C12_RolloverCommits ==
  last.op = "restore" =>
    IF WasDue
      THEN /\ org.plan = last.pre.next_plan
           /\ org.update_on = IF free(last.pre.next_plan) THEN NULL ELSE today + Month
      ELSE org = last.pre

C12_Witness ==
  /\ last.op = "restore"
  /\ WasDue
  /\ ~free(last.pre.next_plan)
  /\ last.pre.plan # last.pre.next_plan

\* a plan change is pending
Deferred == org.exists /\ org.plan # org.next_plan

\* a request other than the rollover job has just been served
Intervened == last.op \in {"create", "signup", "set_subscription", "invoice_failed"}

\* C13: a plan change that set_subscription deferred (next_plan differs from
\* plan) is eventually committed by a rollover run (plan = next_plan), unless
\* another transition intervenes; stated for the deferrals whose reset date,
\* if any, the clock reaches.
C13_DeferredEventuallyCommitted ==
  (Idle /\ Deferred /\ (org.update_on = NULL \/ org.update_on <= MaxDay))
    ~> (org.plan = org.next_plan \/ Intervened)

\* C14: a rollover run made right after another on the same day selects no
\* organization and changes no plan and no update_on.
C14_RerunSelectsNothing ==
  last.op = "restore_again" =>
    /\ last.args.uuids = {}
    /\ org.plan = last.pre.plan
    /\ org.update_on = last.pre.update_on

C14_Witness ==
  /\ last.op = "restore_again"
  /\ last.first # {}
  /\ org.update_on = today + Month

\* C15: a rollover run appends no change-log row and leaves next_plan,
\* max_users, subscription_id, customer_id and payment_failed as they were.
C15_RolloverFrame ==
  (last.op \in {"restore", "restore_again"}) =>
    /\ change_logs = <<>>
    /\ org.next_plan = last.pre.next_plan
    /\ org.max_users = last.pre.max_users
    /\ org.subscription_id = last.pre.subscription_id
    /\ org.customer_id = last.pre.customer_id
    /\ org.payment_failed = last.pre.payment_failed

C15_Witness ==
  /\ last.op = "restore"
  /\ WasDue
  /\ last.pre.payment_failed
  /\ org.plan # last.pre.plan

\* C16: a successful set_subscription on an individual organization leaves
\* max_users = 1 and records to_max_users = 1 in its change-log row, whatever
\* seat count the caller passes and whichever branch is taken.
C16_IndividualOneSeat ==
  (last.op = "set_subscription" /\ last.exc = "none" /\ last.pre.individual) =>
    /\ org.max_users = IndividualMaxUsers
    /\ Len(change_logs) = 1
    /\ change_logs[1].to_max_users = IndividualMaxUsers

C16_Witness ==
  /\ Called("cancel")
  /\ last.exc = "none"
  /\ last.pre.individual
  /\ last.args.max_users # IndividualMaxUsers

\* the events of the gateway's card call and of a plan transition
CardEvents == {"card_saved", "card_declined"}

TransitionEvents ==
  {"stripe_create", "stripe_create_failed", "stripe_modify", "stripe_modify_failed",
   "stripe_cancel", "stripe_cancel_failed"}

\* C17: when set_subscription is given a token, the card is saved before any
\* step of the plan transition, and a declined card ends the call with plan,
\* next_plan, max_users, update_on and subscription_id as they were, no
\* remote subscription call and no Updated change-log row; inside signup the
\* new organization stays on the free plan.
C17_CardBeforeTransition ==
  /\ (last.op = "set_subscription") =>
       \A i, j \in 1..Len(last.events) :
         (last.events[i].e \in CardEvents
            /\ last.events[j].e \in TransitionEvents \cup {"log"}) => i < j
  /\ (last.op \in {"set_subscription", "signup"}) =>
       /\ \A i, j \in 1..Len(last.events) :
            (last.events[i].e \in CardEvents
               /\ last.events[j].e \in TransitionEvents) => i < j
       /\ Issued("card_declined") =>
            /\ \A i \in 1..Len(last.events) : last.events[i].e \notin TransitionEvents
            /\ Logged(UPDATED) = <<>>
  /\ (last.op = "set_subscription" /\ Issued("card_declined")) =>
       /\ org.plan = last.pre.plan
       /\ org.next_plan = last.pre.next_plan
       /\ org.max_users = last.pre.max_users
       /\ org.update_on = last.pre.update_on
       /\ org.subscription_id = last.pre.subscription_id
       /\ change_logs = <<>>
  /\ (last.op = "signup" /\ Issued("card_declined")) =>
       /\ org.plan = "free"
       /\ org.next_plan = "free"
       /\ org.update_on = NULL
       /\ org.subscription_id = NULL

C17_Witness ==
  /\ Called("modify")
  /\ Issued("card_declined")
  /\ last.pre.subscription_id # NULL
  /\ last.args.plan # last.pre.plan

\* C18: a set_subscription call whose card the gateway declines leaves the
\* stored payment_failed flag as it was before the call.
C18_FlagKeptOnCardFailure ==
  (last.op = "set_subscription" /\ Issued("card_declined")) =>
    org.payment_failed = last.pre.payment_failed

\* C19: every cache-invalidation notification of a request is sent outside
\* every atomic block with nothing uncommitted on the connection.
C19_CacheAfterCommit ==
  (last.op \in {"create", "signup", "set_subscription", "invoice_failed"}) =>
    \A i \in 1..Len(last.events) :
      last.events[i].e = "cache" =>
        /\ last.events[i].depth = 0
        /\ ~last.events[i].dirty

\* the invitation has been accepted or rejected
Closed(inv) == inv.accepted_at # NULL \/ inv.rejected_at # NULL

\* C20: accept() or reject() on an invitation whose accepted_at or
\* rejected_at is set raises an error and leaves accepted_at, rejected_at,
\* user and the memberships as they were.
C20_ClosedInvitationRefuses ==
  (last.op \in {"accept", "reject"} /\ Closed(last.pre.invitation)) =>
    /\ last.exc # "none"
    /\ invitation.accepted_at = last.pre.invitation.accepted_at
    /\ invitation.rejected_at = last.pre.invitation.rejected_at
    /\ invitation.user = last.pre.invitation.user
    /\ memberships = last.pre.memberships

C20_Witness ==
  /\ last.op = "accept"
  /\ last.args.user # NoUser
  /\ last.pre.invitation.accepted_at # NULL
  /\ last.pre.invitation.accepted_at < today
  /\ last.args.user \notin memberships

\* C21: an invitation never has both accepted_at and rejected_at set, and
\* once either is set no step changes either of them.
C21_InvitationTerminal ==
  /\ [](invitation.accepted_at = NULL \/ invitation.rejected_at = NULL)
  /\ [][Closed(invitation) =>
          /\ invitation'.accepted_at = invitation.accepted_at
          /\ invitation'.rejected_at = invitation.rejected_at]_vars

C21_Witness ==
  /\ last.op = "reject"
  /\ last.pre.invitation.accepted_at # NULL
  /\ last.pre.invitation.accepted_at < today

\* the charge.succeeded event is one the handler ignores: no customer, a
\* donation or crowdfund invoice line, or no invoice and a donation or
\* crowdfund metadata action
Ignored(charge_data) ==
  \/ charge_data.customer = NULL
  \/ /\ charge_data.invoice # NoInvoice
     /\ charge_data.invoice[1] \in {"donate", "crowdfund"}
  \/ /\ charge_data.invoice = NoInvoice
     /\ charge_data.action \in {"donation", "crowdfund-payment"}

\* C22: an ignored charge.succeeded event creates no Charge row and sends no
\* receipt.
C22_IgnoredChargeLeavesNothing ==
  (last.op = "charge_succeeded" /\ Ignored(last.args)) =>
    /\ charges = last.charges
    /\ receipts = last.receipts
    /\ ~last.created
    /\ last.exc = "none"

C22_Witness ==
  /\ last.op = "charge_succeeded"
  /\ last.args.customer = CustomerId
  /\ last.pre.exists
  /\ last.pre.customer_id = CustomerId
  /\ last.args.invoice = NoInvoice
  /\ last.args.action = "crowdfund-payment"
  /\ \A i \in 1..Len(charges) : charges[i].charge_id # last.args.id

\* the Charge table holds a row of the charge id
HasCharge(table, id) == \E i \in 1..Len(table) : table[i].charge_id = id

\* the organization of the customer reference is visible
Visible(row, cust) == row.exists /\ row.customer_id = cust

\* a delivery of a new charge that found no organization of its customer
LookupFailed ==
  /\ last.op = "charge_succeeded"
  /\ ~Ignored(last.args)
  /\ ~HasCharge(last.charges, last.args.id)
  /\ ~Visible(last.pre, last.args.customer)

\* C23: a charge.succeeded event of a new charge whose customer no
\* organization has creates no Charge row, sends no receipt and is retried;
\* a failed retry leaves nothing either; and when the organization of the
\* customer becomes visible while the retry is waiting, the Charge row of
\* the event is eventually there.
C23_UnknownCustomerRetried ==
  /\ [](LookupFailed =>
          /\ last.exc = "DoesNotExist"
          /\ charges = last.charges
          /\ receipts = last.receipts
          /\ retry.pending
          /\ retry.args = last.args)
  /\ []((last.op = "charge_retry" /\ last.exc # "none") =>
          /\ charges = last.charges
          /\ receipts = last.receipts)
  /\ \A id \in ChargeIds :
       (retry.pending /\ retry.args.id = id /\ Visible(org, retry.args.customer))
         ~> HasCharge(charges, id)

C23_Witness ==
  /\ last.op = "charge_retry"
  /\ last.exc = "none"
  /\ last.created
  /\ HasCharge(charges, last.args.id)
  /\ ~retry.pending

\* a payment-failed event whose customer no organization has
UnknownFailure ==
  /\ last.op = "invoice_failed"
  /\ ~Visible(last.pre, last.args.customer)

\* C24: a payment-failed event whose customer matches no organization is
\* logged and dropped: the organization is left as it was, no change-log row
\* is appended, nothing is sent and no exception makes the task retry.
C24_UnknownFailureDropped ==
  UnknownFailure =>
    /\ org = last.pre
    /\ change_logs = <<>>
    /\ last.exc = "none"
    /\ \A i \in 1..Len(last.events) : last.events[i].e = "log_error"

C24_Witness ==
  /\ UnknownFailure
  /\ org.exists
  /\ org.customer_id = CustomerId
  /\ ~free(org.plan)
  /\ last.args.attempt_count = FinalAttempt

\* C25: a second delivery of a payment-failed event of a known organization
\* leaves plan, next_plan, max_users, subscription_id and payment_failed as
\* the first left them and appends no further change-log row.
C25_FailureRedeliveryIdempotent ==
  (last.op = "invoice_failed_again" /\ Visible(last.pre, last.args.customer)) =>
    /\ org.plan = last.pre.plan
    /\ org.next_plan = last.pre.next_plan
    /\ org.max_users = last.pre.max_users
    /\ org.subscription_id = last.pre.subscription_id
    /\ org.payment_failed = last.pre.payment_failed
    /\ change_logs = <<>>

\* the gateway's subscriptions that are neither cancelled nor marked to
\* cancel at period end
ActiveSubscriptions == {i \in 1..Len(subs) : subs[i].status = "active"}

\* C26: the organization's subscription_id is non-null exactly when the
\* gateway holds an active subscription of the organization.
C26_SubscriptionIdIffActive ==
  (org.exists /\ org.subscription_id # NULL) <=> (ActiveSubscriptions # {})

\* a paid->paid call that modified the remote subscription towards a plan of
\* a lower feature level
PaidDowngrade ==
  /\ Called("modify")
  /\ last.exc = "none"
  /\ last.pre.subscription_id # NULL
  /\ feature_level(last.args.plan) < feature_level(last.pre.plan)

\* C27 as stated: after a paid->paid set_subscription to a plan of a lower
\* feature level, plan stays the current plan, next_plan is the new plan, and
\* max_users still has its value from before the call.
C27_DowngradeKeepsSeats ==
  PaidDowngrade =>
    /\ org.plan = last.pre.plan
    /\ org.next_plan = last.args.plan
    /\ org.max_users = last.pre.max_users

\* C27: after a paid->paid set_subscription to a plan of a lower feature
\* level, plan stays the current plan and next_plan is the new plan, while
\* max_users is the requested seat count at once.
C27_DowngradeDefersPlanOnly ==
  PaidDowngrade =>
    /\ org.plan = last.pre.plan
    /\ org.next_plan = last.args.plan
    /\ org.max_users = Requested

C27_Witness ==
  /\ PaidDowngrade
  /\ Requested # last.pre.max_users
  /\ org.plan = "pro"
  /\ org.next_plan = "basic"

\* C28: a plan is free exactly when its base price and its price per user
\* are both zero, and a rollover run treats a selected organization as free
\* (update_on becomes null) exactly when its next_plan is free.
C28_FreePartition ==
  /\ \A p \in Plans : free(p) <=> (base_price(p) = 0 /\ price_per_user(p) = 0)
  /\ (last.op = "restore" /\ WasDue) =>
       ((org.update_on = NULL) <=> free(last.pre.next_plan))

C28_Witness ==
  /\ last.op = "restore"
  /\ WasDue
  /\ base_price(last.pre.next_plan) = 0
  /\ price_per_user(last.pre.next_plan) > 0
  /\ org.update_on = today + Month

\* the events of the gateway's customer calls
CustomerEvents == {"stripe_customer_retrieve", "stripe_customer_create"}

\* the number of events of a kind in a sequence of events
RECURSIVE Count(_, _)
Count(events, kinds) ==
  IF events = <<>> THEN 0
  ELSE (IF Head(events).e \in kinds THEN 1 ELSE 0) + Count(Tail(events), kinds)

\* C29: a set_subscription call issues at most one remote subscription
\* operation (create, modify or cancel at period end, succeeding or not), and
\* a free->free call without a token issues no gateway call at all.
C29_OneRemoteOperation ==
  (last.op \in {"set_subscription", "signup"}) =>
    /\ Count(last.events, TransitionEvents) <= 1
    /\ (Called("plan") /\ last.args.token = NoToken) =>
         Count(last.events, TransitionEvents \cup CardEvents \cup CustomerEvents) = 0

C29_Witness ==
  /\ Called("modify")
  /\ last.pre.subscription_id = NULL
  /\ last.exc = "none"
  /\ Issued("log_warning")
  /\ Count(last.events, TransitionEvents) = 1

\* a paid->paid call on an organization without a subscription id, with
\* nothing going wrong at the gateway or in the database
Fallback ==
  /\ Called("modify")
  /\ last.pre.subscription_id = NULL
  /\ last.args.fail = "none"

\* C30: a paid->paid set_subscription that finds no remote subscription
\* does not fail but follows the create path: plan = next_plan = the new
\* plan and max_users = the requested value whatever the feature levels,
\* update_on = today + 1 month, one new remote subscription created after
\* the commit and stored, no modify call, and one Updated change-log row.
C30_MissingSubscriptionCreates ==
  Fallback =>
    /\ last.exc = "none"
    /\ org.plan = last.args.plan
    /\ org.next_plan = last.args.plan
    /\ org.max_users = Requested
    /\ org.update_on = today + Month
    /\ Count(last.events, {"stripe_create"}) = 1
    /\ Count(last.events, TransitionEvents) = 1
    /\ \A i \in 1..Len(last.events) :
         last.events[i].e = "stripe_create" =>
           /\ last.events[i].depth = 0
           /\ ~last.events[i].dirty
           /\ \E j \in 1..(i - 1) : last.events[j].e = "commit"
    /\ org.subscription_id = Len(subs)
    /\ subs[org.subscription_id].status = "active"
    /\ Len(change_logs) = 1
    /\ Len(Logged(UPDATED)) = 1
    /\ Snapshot(change_logs[1], last.pre, org)

C30_Witness ==
  /\ Fallback
  /\ feature_level(last.args.plan) < feature_level(last.pre.plan)
  /\ org.plan = last.args.plan
  /\ Requested # last.pre.max_users
  /\ Len(subs) = 2

\* a paid->free call on an organization without a subscription id, with the
\* card (if any) accepted and the database working
CancelWithoutSubscription ==
  /\ Called("cancel")
  /\ last.pre.subscription_id = NULL
  /\ last.args.fail \in {"none", "subscription"}

\* C31: a paid->free set_subscription that finds no remote subscription does
\* not fail and issues no remote subscription call: it reports the anomaly,
\* sets next_plan to the free plan, leaves plan as it was and appends one
\* Updated change-log row.
C31_CancelWithoutSubscription ==
  CancelWithoutSubscription =>
    /\ last.exc = "none"
    /\ Count(last.events, TransitionEvents) = 0
    /\ Issued("log_error")
    /\ org.next_plan = last.args.plan
    /\ org.plan = last.pre.plan
    /\ org.subscription_id = NULL
    /\ Len(change_logs) = 1
    /\ Len(Logged(UPDATED)) = 1
    /\ Snapshot(change_logs[1], last.pre, org)

C31_Witness ==
  /\ CancelWithoutSubscription
  /\ last.pre.next_plan # last.args.plan
  /\ org.plan = "pro"
  /\ org.next_plan = "beta"

\* the gateway rejected the modify or the cancel call of a set_subscription
RemoteCallFailed ==
  /\ last.op = "set_subscription"
  /\ (Issued("stripe_modify_failed") \/ Issued("stripe_cancel_failed"))

\* C32: when the remote modify call or the remote cancel-at-period-end call
\* fails, set_subscription fails, plan, next_plan, max_users, update_on and
\* subscription_id are as before the call and no change-log row is appended.
C32_RemoteFailureKeepsState ==
  RemoteCallFailed =>
    /\ last.exc = "StripeError"
    /\ org.plan = last.pre.plan
    /\ org.next_plan = last.pre.next_plan
    /\ org.max_users = last.pre.max_users
    /\ org.update_on = last.pre.update_on
    /\ org.subscription_id = last.pre.subscription_id
    /\ change_logs = <<>>
    /\ \A i \in 1..Len(subs) :
         (i = org.subscription_id) => subs[i].status = "active"

C32_Witness ==
  /\ RemoteCallFailed
  /\ Called("cancel")
  /\ last.args.token # NoToken
  /\ Requested # last.pre.max_users
  /\ org.subscription_id # NULL

\* the world of a request that finds the given row and subscriptions
Fresh(row, subsq) ==
  [World("none") EXCEPT !.db.org = row, !.committed.org = row, !.inst = row,
                        !.subs = subsq]

\* the row that two operations leave when the second starts after the first
\* has finished
Serial(a, b, row, subsq) ==
  Then(Perform(a, Fresh(row, subsq)), LAMBDA w1 :
  Then(Perform(b, Fresh(w1.committed.org, w1.subs)), LAMBDA w2 : w2.committed.org))

\* the fields of the organization that the billing operations write
Billing(row) ==
  [plan |-> row.plan, next_plan |-> row.next_plan, max_users |-> row.max_users,
   update_on |-> row.update_on, subscription_id |-> row.subscription_id,
   payment_failed |-> row.payment_failed]

\* C33: when a second operation on the organization is served between the
\* load and the writes of a first, the final plan, next_plan, max_users,
\* update_on, subscription_id and payment_failed are those that one of the
\* two serial orders leaves.
C33_Serializable ==
  last.op = "concurrent" =>
    Billing(org) \in
      {Billing(Serial(last.first, last.second, last.start.row, last.start.subs)),
       Billing(Serial(last.second, last.first, last.start.row, last.start.subs))}

\* two calls among accept and reject have run on an invitation both found
\* pending, the first on the copy it loaded before the second was served
Raced ==
  /\ last.op = "concurrent_invitation"
  /\ ~Closed(last.start.invitation)

\* C34: of two concurrent calls among accept and reject on a pending
\* invitation at most one succeeds, the other failing as on a closed
\* invitation, and the invitation adds a membership only if it is stored as
\* accepted.
C34_OneCallWins ==
  Raced =>
    /\ (last.second.exc = "none") => (last.first.exc = "ValueError")
    /\ (memberships # last.start.memberships) =>
         (invitation.accepted_at # NULL /\ invitation.rejected_at = NULL)

\* accept has just run on an invitation that was pending
AcceptedPending ==
  /\ last.op = "accept"
  /\ ~Closed(last.pre.invitation)

\* C35: accept on a pending invitation without a user, given no user, raises
\* an error and leaves the invitation pending and the memberships as they
\* were; otherwise it succeeds, and the invitation's user (its own, else the
\* one given) is a member, through a membership created only if there was
\* none.
C35_AcceptMembership ==
  AcceptedPending =>
    IF last.pre.invitation.user = NoUser /\ last.args.user = NoUser
      THEN /\ last.exc = "ValueError"
           /\ invitation = last.pre.invitation
           /\ memberships = last.pre.memberships
      ELSE /\ last.exc = "none"
           /\ invitation.user = IF last.pre.invitation.user # NoUser
                                  THEN last.pre.invitation.user
                                  ELSE last.args.user
           /\ invitation.accepted_at = today
           /\ invitation.rejected_at = NULL
           /\ invitation.user \in memberships
           /\ memberships = last.pre.memberships \cup {invitation.user}
           /\ Cardinality(memberships) =
                Cardinality(last.pre.memberships)
                  + (IF invitation.user \in last.pre.memberships THEN 0 ELSE 1)

C35_Witness ==
  /\ AcceptedPending
  /\ last.exc = "none"
  /\ last.pre.invitation.user = NoUser
  /\ invitation.user \in last.pre.memberships
  /\ Cardinality(memberships) = 2

====
